---- MODULE Spec2Model ----
(***************************************************************************)
(* Model of newsentiment.                                                  *)
(*                                                                         *)
(* The SQLite persistence layer (src/database.py): three append-only       *)
(* tables, batch inserts stamped by the column default CURRENT_TIMESTAMP,  *)
(* "latest snapshot" reads through a MAX(fetched_at) subquery, and news    *)
(* deduplicated by URL with INSERT OR IGNORE. Every operation is one       *)
(* action; a batch insert and init_db are also followed statement by       *)
(* statement, for what other connections see while they run. An operation  *)
(* that raises leaves its connection open until it is finalized.           *)
(*                                                                         *)
(* The GDELT fetch of the main page (src/streamlit_app.py) and the loop    *)
(* over the states of the US news map page (src/pages/us_news_map.py),     *)
(* with tenacity's retries and Streamlit's cache.                          *)
(*                                                                         *)
(* An optional (nullable) column value is modelled as a sequence of length *)
(* at most one: <<>> is SQL NULL / Python None, <<v>> is the value v.      *)
(* A fetched_at value is the number of the clock second in which the       *)
(* INSERT statement ran: CURRENT_TIMESTAMP is the text                     *)
(* "YYYY-MM-DD HH:MM:SS", whose text order is the order of the seconds.    *)
(* A publishedDate is likewise the rank of a fixed-format date text.       *)
(***************************************************************************)
EXTENDS Integers, Sequences, FiniteSets

\* ---------------------------------------------------------------- bounds

\* Largest number of rows of a table.
MaxRows == 4

\* Largest number of rows the two snapshot tables hold together when their
\* operations are interleaved.
MaxTotal == 2

\* Largest number of rows the three tables hold together when the
\* operations of all three are interleaved.
MaxStore == 1

\* Last clock second of a run (the clock starts in second 1).
MaxTime == 3

\* Number of callers that run init_db concurrently.
MaxInitCallers == 2

\* Number of entries of US_STATES the map page loops over (50 in the page).
NumStates == 3

\* ---------------------------------------------------------------- inputs

NULL == <<>>

\* Rows a fetch collaborator hands to insert_sector_snapshot.
SectorInputs ==
  { [sector |-> "Technology", symbol |-> "XLK", price |-> <<10>>,
     change |-> <<1>>, changesPercentage |-> <<1>>],
    [sector |-> "Technology", symbol |-> "XLK", price |-> <<9>>,
     change |-> <<-2>>, changesPercentage |-> <<-2>>],
    [sector |-> "Technology", symbol |-> "XLK", price |-> <<12>>,
     change |-> <<3>>, changesPercentage |-> <<3>>],
    [sector |-> "Energy", symbol |-> "XLE", price |-> NULL,
     change |-> NULL, changesPercentage |-> NULL] }

SectorRow(sec, pct) ==
  CHOOSE r \in SectorInputs : r.sector = sec /\ r.changesPercentage = pct

\* The batches passed to insert_sector_snapshot (the empty list included).
SectorBatches ==
  { <<>>,
    <<SectorRow("Technology", <<1>>), SectorRow("Energy", NULL)>>,
    <<SectorRow("Technology", <<-2>>)>>,
    <<SectorRow("Technology", <<3>>)>> }

\* A row without the key "sector": row["sector"] raises KeyError.
SectorRowNoKey ==
  [symbol |-> "XLK", price |-> <<10>>, change |-> <<1>>,
   changesPercentage |-> <<1>>]

\* A batch whose second row cannot be inserted.
SectorBatchesFailing ==
  { <<SectorRow("Technology", <<3>>), SectorRowNoKey>> }

MoverTypes == {"gainer", "loser", "active"}

\* Rows a fetch collaborator hands to insert_market_movers.
MoverInputs ==
  { [symbol |-> <<"AAA">>, name |-> <<"Alpha">>, price |-> <<5>>,
     change |-> <<2>>, changesPercentage |-> <<2>>, volume |-> <<100>>],
    [symbol |-> <<"BBB">>, name |-> NULL, price |-> <<7>>,
     change |-> <<-1>>, changesPercentage |-> <<-1>>, volume |-> NULL] }

MoverRow(sym) == CHOOSE r \in MoverInputs : r.symbol = <<sym>>

MoverBatches ==
  { <<>>,
    <<MoverRow("AAA")>>,
    <<MoverRow("BBB"), MoverRow("AAA")>> }

\* A row without "symbol": row.get("symbol") is None and violates
\* symbol TEXT NOT NULL.
MoverRowNoSymbol ==
  [symbol |-> NULL, name |-> <<"Gamma">>, price |-> <<3>>,
   change |-> <<1>>, changesPercentage |-> <<1>>, volume |-> <<50>>]

\* A batch whose second row cannot be inserted.
MoverBatchesFailing ==
  { <<MoverRow("AAA"), MoverRowNoSymbol>> }

\* Items a fetch collaborator hands to insert_news: url and title may be
\* missing (item.get returns None), two items may share a url.
NewsItem(u, t, p) ==
  [url |-> u, symbol |-> <<"AAA">>, title |-> t, text |-> NULL,
   site |-> <<"site">>, publishedDate |-> p]

NewsBatches ==
  { <<>>,
    <<NewsItem(<<"u1">>, <<"A">>, <<1>>)>>,
    <<NewsItem(<<"u1">>, <<"A-updated">>, <<3>>)>>,
    <<NewsItem(<<"u2">>, <<"B">>, NULL), NewsItem(<<"u2">>, <<"B2">>, <<2>>)>>,
    <<NewsItem(NULL, <<"N">>, <<2>>)>>,
    <<NewsItem(<<"u4">>, NULL, <<3>>), NewsItem(<<"u3">>, <<"C">>, <<1>>)>> }

Sectors == {"Technology", "Utilities"}

\* The (query, timespan) arguments get_gdelt_data is called with.
GdeltArgs == {<<"AI", "24h">>, <<"AI", "1w">>}

\* What one requests.get of get_gdelt_data produces: a body with timeline
\* data, a body without, an HTTP error status, a failed connection, a body
\* that is not JSON, a JSON body that is not an object.
Responses ==
  {"timeline", "no timeline", "HTTP 429", "HTTP 500", "ConnectionError",
   "invalid JSON", "not an object"}

\* The responses that raise a RequestException inside the try block
\* (requests' JSONDecodeError is one, and a ValueError as well).
RequestErrors == {"HTTP 429", "HTTP 500", "ConnectionError", "invalid JSON"}

\* What one request of get_gdelt_state_news_data produces.
StateResponses == {"ok", "HTTP 429", "error", "malformed"}

\* The first keys of US_STATES, in the order of the dict.
StateAbbrs == <<"AL", "AK", "AZ", "AR", "CA">>

US_STATES == SubSeq(StateAbbrs, 1, NumStates)

\* ----------------------------------------------------------------- state

\* The tables init_db creates.
TableNames == {"sector_snapshots", "market_movers", "stock_news"}

\* No batch insert is running step by step.
NoTxn == [active |-> FALSE, name |-> "", key |-> "", data |-> <<>>,
          rows |-> <<>>]

\* The concurrent callers of init_db.
InitCallers == 1 .. MaxInitCallers

VARIABLES
  schema,            \* the tables that exist in the database file
  clock,             \* the current second of the storage layer's clock
  sector_snapshots,  \* table sector_snapshots, in rowid order
  market_movers,     \* table market_movers, in rowid order
  stock_news,        \* table stock_news, in rowid order
  sectorCalls,       \* history: ids inserted by each non-empty sector call
  moverCalls,        \* history: type and ids of each non-empty mover call
  call,              \* the last operation called, with its arguments
  ret,               \* the DataFrame rows it returned (<<>> when none)
  err,               \* the exception it raised ("none" when it returned)
  unclosed,          \* some connection is left open outside a transaction
  writer,            \* a connection left open inside a write transaction
  txn,               \* the batch insert that is running statement by statement
  initPc,            \* per caller of init_db: the statements it has run
  initErr,           \* per caller of init_db: the exception it raised
  gdeltPc,           \* get_gdelt_data: "idle", or "attempt" inside a call
  gdeltArgs,         \* the (query, timespan) of the call
  attempt_number,    \* tenacity's count of the attempts of the call
  response,          \* what the last attempt's request produced
  gdeltResult,       \* what the last finished call returned or raised
  gdeltCache,        \* st.cache_data: the value cached for each (query, timespan)
  mapPc,             \* the map page's run: where its loop stands
  state_index,       \* position in US_STATES of the loop's current state
  stateAttempts,     \* attempts of the current get_gdelt_state_news_data call
  all_states_data,   \* the list the loop appends to (by state abbreviation)
  processed,         \* history: the states the loop body has been entered for
  fetched,           \* history: how each state's fetch ended in this run
  stateCache         \* st.cache_data: the states whose data is cached

\* What an operation of the database layer that runs as one step leaves
\* alone: the operations followed statement by statement.
gdeltVars == <<gdeltPc, gdeltArgs, attempt_number, response, gdeltResult,
               gdeltCache>>

mapVars == <<mapPc, state_index, stateAttempts, all_states_data, processed,
             fetched, stateCache>>

\* The pages' state, which the database layer never touches.
appVars == <<gdeltVars, mapVars>>

otherVars == <<txn, initPc, initErr, appVars>>

\* The three tables exist (init_db has run).
initialized == schema = TableNames

dbVars == <<schema, clock, sector_snapshots, market_movers, stock_news,
            sectorCalls, moverCalls, call, ret, err, unclosed, writer,
            txn, initPc, initErr>>

vars == <<dbVars, appVars>>

tables == <<sector_snapshots, market_movers, stock_news>>

Call(name, key, limit, present, data) ==
  [name |-> name, key |-> key, limit |-> limit, present |-> present,
   data |-> data]

\* ------------------------------------------------------- SQL primitives

Rows(tbl) == {tbl[i] : i \in DOMAIN tbl}

\* NULL compared as larger than every other value (NULLS FIRST in a
\* descending order).
SqlLeqNullsLargest(a, b) == b = NULL \/ (a # NULL /\ a[1] <= b[1])

\* SQLite compares NULL as smaller than every other value.
SqlLeq(a, b) == a = NULL \/ (b # NULL /\ a[1] <= b[1])

\* The aggregate MAX(...): NULL over no rows.
SqlMax(S) == IF S = {} THEN NULL ELSE <<CHOOSE m \in S : \A x \in S : x <= m>>

\* ORDER BY k DESC over a set of [id, k, row]: every sequence of the rows in
\* which the keys never increase (NULL keys last). Rows with equal keys come
\* in any order; of several rows with equal keys and equal selected columns
\* the one of least id is taken first, since they are indistinguishable in
\* the result.
RECURSIVE OrderByDesc(_)
OrderByDesc(R) ==
  IF R = {} THEN {<<>>}
  ELSE LET top  == {r \in R : \A q \in R : SqlLeq(q.k, r.k)}
           reps == {r \in top : \A q \in top : q.row = r.row => r.id <= q.id}
       IN  UNION { {<<r.row>> \o s : s \in OrderByDesc(R \ {r})} : r \in reps }

\* A limit of 0 taken as "no limit".
LimitZeroUnlimited(s, n) == IF n <= 0 \/ n >= Len(s) THEN s ELSE SubSeq(s, 1, n)

\* LIMIT n: the first n rows; a negative n is no limit in SQLite.
Limit(s, n) == IF n < 0 \/ n >= Len(s) THEN s ELSE SubSeq(s, 1, n)

\* `if data == []`: None is not caught.
IsEmptyList(present, data) == present /\ data = <<>>

\* `if not data`: None and the empty list are falsy.
IsFalsy(present, data) == ~present \/ data = <<>>

\* The second in which the i-th INSERT statement of a call runs: ticks[j]
\* tells whether the clock passed a second boundary just before the j-th
\* statement. Every statement evaluates CURRENT_TIMESTAMP anew.
TimeOf(ticks, i) == clock + Cardinality({j \in 1..i : ticks[j]})

Ticks(data) == [1..Len(data) -> BOOLEAN]

RowCount == Len(sector_snapshots) + Len(market_movers) + Len(stock_news)

\* A non-empty insert of data under ticks stays inside the bounds.
InBounds(data, ticks) ==
  /\ RowCount + Len(data) <= MaxRows
  /\ TimeOf(ticks, Len(data)) <= MaxTime

NextId(tbl) == Len(tbl) + 1

\* ------------------------------------------------------------ connections

\* A connection opened by get_db_connection is still open.
AnyOpen == unclosed \/ writer

\* An operation returns through conn.close().
Closed == UNCHANGED <<unclosed, writer>>

\* An operation raises between get_db_connection() and conn.close(): no
\* try/finally closes the connection. In a write transaction it keeps the
\* database's write lock.
LeftOpen(inTransaction) ==
  IF inTransaction
  THEN writer' = TRUE /\ UNCHANGED unclosed
  ELSE unclosed' = TRUE /\ UNCHANGED writer

\* The interpreter finalizes a connection object that is no longer
\* referenced: sqlite3 closes it, rolling back its open transaction.
finalize_connection ==
  /\ \/ unclosed /\ unclosed' = FALSE /\ UNCHANGED writer
     \/ writer /\ writer' = FALSE /\ UNCHANGED unclosed
  /\ UNCHANGED <<schema, clock, tables, sectorCalls, moverCalls,
                 call, ret, err, otherVars>>

\* The index of the first row of data that cannot be inserted, 0 if none.
FirstFailing(data, Fails(_)) ==
  IF \E i \in DOMAIN data : Fails(data[i])
  THEN CHOOSE i \in DOMAIN data :
         Fails(data[i]) /\ \A j \in 1..(i - 1) : ~Fails(data[j])
  ELSE 0

\* The failure swallowed: a query on a missing table answers as on an
\* empty one.
QueryNeverRaises(table) == FALSE

\* What a query returns or raises: pandas raises DatabaseError when the
\* statement cannot be executed (no such table).
QueryRaises(table) == table \notin schema

\* An INSERT cannot start: the table does not exist, or another connection
\* holds the write lock (an open write transaction).
Locked == writer \/ (txn.active /\ txn.rows # <<>>)

InsertRaises(table) == table \notin schema \/ Locked

\* ------------------------------------------------------------ init_db

Init ==
  /\ schema = {}
  /\ clock = 1
  /\ sector_snapshots = <<>>
  /\ market_movers = <<>>
  /\ stock_news = <<>>
  /\ sectorCalls = <<>>
  /\ moverCalls = <<>>
  /\ call = Call("start", "", 0, FALSE, <<>>)
  /\ ret = <<>>
  /\ err = "none"
  /\ unclosed = FALSE
  /\ writer = FALSE
  /\ txn = NoTxn
  /\ initPc = [p \in InitCallers |-> 0]
  /\ initErr = [p \in InitCallers |-> "none"]
  /\ gdeltPc = "idle"
  /\ gdeltArgs = <<"", "">>
  /\ attempt_number = 0
  /\ response = "none"
  /\ gdeltResult = "none"
  /\ gdeltCache = [a \in GdeltArgs |-> "miss"]
  /\ mapPc = "idle"
  /\ state_index = 1
  /\ stateAttempts = 0
  /\ all_states_data = <<>>
  /\ processed = <<>>
  /\ fetched = [i \in DOMAIN US_STATES |-> "none"]
  /\ stateCache = {}

\* DROP TABLE IF EXISTS followed by CREATE TABLE: the rows are lost.
DropAndCreateTable(tbl) == <<>>

\* CREATE TABLE IF NOT EXISTS: an existing table and its rows are kept.
CreateTableIfNotExists(tbl) == tbl

init_db ==
  /\ schema' = TableNames
  /\ sector_snapshots' = CreateTableIfNotExists(sector_snapshots)
  /\ market_movers' = CreateTableIfNotExists(market_movers)
  /\ stock_news' = CreateTableIfNotExists(stock_news)
  /\ call' = Call("init_db", "", 0, FALSE, <<>>)
  /\ ret' = <<>>
  /\ err' = "none"
  /\ Closed
  /\ UNCHANGED <<clock, sectorCalls, moverCalls, otherVars>>

\* ------------------------------------------------------ sector snapshots

SectorStored(row, id, t) ==
  [id |-> id, sector |-> row.sector, symbol |-> row.symbol,
   price |-> row.price, change |-> row.change,
   changesPercentage |-> row.changesPercentage, fetched_at |-> t]

\* The new snapshot written over the stored ones instead of after them.
ReplaceSectorRows(tbl, data, ticks) ==
  [i \in 1..Len(data) |->
     SectorStored(data[i], NextId(tbl) + i - 1, TimeOf(ticks, i))]

InsertSectorRows(tbl, data, ticks) ==
  tbl \o [i \in 1..Len(data) |->
            SectorStored(data[i], NextId(tbl) + i - 1, TimeOf(ticks, i))]

\* row["sector"], row["symbol"]: KeyError on a row without the key.
SectorRowRaises(row) == ~({"sector", "symbol"} \subseteq DOMAIN row)

\* Every INSERT commits at once (a connection in autocommit mode): the rows
\* before the failing one stay.
SectorAutocommitted(tbl, data, ticks, k) ==
  InsertSectorRows(tbl, SubSeq(data, 1, k - 1), ticks)

\* The table after a call that raised at its k-th row: conn.commit() was
\* not reached, and the rows inserted before it belong to a transaction
\* that is never committed.
SectorAfterFailure(tbl, data, ticks, k) == tbl

insert_sector_snapshot ==
  \E present \in BOOLEAN, data \in SectorBatches \cup SectorBatchesFailing :
  \E ticks \in Ticks(data) :
    /\ ~present => data = <<>>
    /\ call' = Call("insert_sector_snapshot", "", 0, present, data)
    /\ ret' = <<>>
    /\ UNCHANGED otherVars
    /\ LET k == FirstFailing(data, SectorRowRaises)
           Unchanged ==
             UNCHANGED <<schema, clock, tables, sectorCalls, moverCalls>>
           NoTicks == \A i \in DOMAIN ticks : ~ticks[i]
       IN
       IF IsFalsy(present, data)
       THEN err' = "none" /\ Closed /\ Unchanged
       ELSE IF ~present
       THEN err' = "TypeError" /\ LeftOpen(FALSE) /\ Unchanged
       ELSE IF k = 1
       THEN err' = "KeyError" /\ LeftOpen(FALSE) /\ NoTicks /\ Unchanged
       ELSE IF InsertRaises("sector_snapshots")
       THEN err' = "OperationalError" /\ LeftOpen(FALSE) /\ NoTicks
            /\ Unchanged
       ELSE IF k > 1
       THEN /\ err' = "KeyError"
            /\ LeftOpen(TRUE)
            /\ NoTicks
            /\ sector_snapshots' =
                 SectorAfterFailure(sector_snapshots, data, ticks, k)
            /\ UNCHANGED <<schema, clock, market_movers, stock_news,
                           sectorCalls, moverCalls>>
       ELSE /\ InBounds(data, ticks)
            /\ err' = "none"
            /\ Closed
            /\ sector_snapshots' = InsertSectorRows(sector_snapshots, data, ticks)
            /\ clock' = TimeOf(ticks, Len(data))
            /\ sectorCalls' = Append(sectorCalls,
                 {NextId(sector_snapshots) + i - 1 : i \in 1..Len(data)})
            /\ UNCHANGED <<schema, market_movers, stock_news, moverCalls>>

\* The query without its WHERE clause: every stored row.
LatestSectorRowsUnfiltered == Rows(sector_snapshots)

LatestSectorRows ==
  {r \in Rows(sector_snapshots) :
     <<r.fetched_at>> = SqlMax({q.fetched_at : q \in Rows(sector_snapshots)})}

SectorSelected(r) ==
  [sector |-> r.sector, symbol |-> r.symbol, price |-> r.price,
   change |-> r.change, changesPercentage |-> r.changesPercentage,
   fetched_at |-> r.fetched_at]

LatestSectorResults ==
  OrderByDesc({[id |-> r.id, k |-> r.changesPercentage,
                row |-> SectorSelected(r)] : r \in LatestSectorRows})

get_latest_sector_snapshot ==
  /\ call' = Call("get_latest_sector_snapshot", "", 0, FALSE, <<>>)
  /\ IF QueryRaises("sector_snapshots")
     THEN /\ ret' = <<>>
          /\ err' = "DatabaseError"
          /\ LeftOpen(FALSE)
     ELSE /\ ret' \in LatestSectorResults
          /\ err' = "none"
          /\ Closed
  /\ UNCHANGED <<schema, clock, tables, sectorCalls, moverCalls,
                 otherVars>>

HistorySelected(r) ==
  [changesPercentage |-> r.changesPercentage, price |-> r.price,
   fetched_at |-> r.fetched_at]

\* ORDER BY changesPercentage DESC, as in the latest-snapshot query.
SectorHistoryByPercentage(sector) ==
  OrderByDesc({[id |-> r.id, k |-> r.changesPercentage,
                row |-> HistorySelected(r)] :
               r \in {q \in Rows(sector_snapshots) : q.sector = sector}})

\* ORDER BY fetched_at ASC is ORDER BY -fetched_at DESC.
SectorHistoryResults(sector) ==
  OrderByDesc({[id |-> r.id, k |-> <<0 - r.fetched_at>>,
                row |-> HistorySelected(r)] :
               r \in {q \in Rows(sector_snapshots) : q.sector = sector}})

get_sector_history ==
  \E sector \in Sectors :
    /\ call' = Call("get_sector_history", sector, 0, FALSE, <<>>)
    /\ IF QueryRaises("sector_snapshots")
       THEN /\ ret' = <<>>
            /\ err' = "DatabaseError"
            /\ LeftOpen(FALSE)
       ELSE /\ ret' \in SectorHistoryResults(sector)
            /\ err' = "none"
            /\ Closed
    /\ UNCHANGED <<schema, clock, tables, sectorCalls, moverCalls,
                   otherVars>>

\* --------------------------------------------------------- market movers

MoverStored(mover_type, row, id, t) ==
  [id |-> id, type |-> mover_type, symbol |-> row.symbol, name |-> row.name,
   price |-> row.price, change |-> row.change,
   changesPercentage |-> row.changesPercentage, volume |-> row.volume,
   fetched_at |-> t]

InsertMoverRows(tbl, mover_type, data, ticks) ==
  tbl \o [i \in 1..Len(data) |->
            MoverStored(mover_type, data[i], NextId(tbl) + i - 1,
                        TimeOf(ticks, i))]

\* symbol TEXT NOT NULL (type is the mover_type argument).
MoverRowRaises(row) == row.symbol = NULL

\* The table after a call that raised at its k-th row: conn.commit() was
\* not reached.
MoverAfterFailure(tbl, mover_type, data, ticks, k) == tbl

insert_market_movers ==
  \E mover_type \in MoverTypes, present \in BOOLEAN,
     data \in MoverBatches \cup MoverBatchesFailing :
  \E ticks \in Ticks(data) :
    /\ ~present => data = <<>>
    /\ call' = Call("insert_market_movers", mover_type, 0, present, data)
    /\ ret' = <<>>
    /\ UNCHANGED otherVars
    /\ LET k == FirstFailing(data, MoverRowRaises)
           Unchanged ==
             UNCHANGED <<schema, clock, tables, sectorCalls, moverCalls>>
           NoTicks == \A i \in DOMAIN ticks : ~ticks[i]
       IN
       IF IsFalsy(present, data)
       THEN err' = "none" /\ Closed /\ Unchanged
       ELSE IF ~present
       THEN err' = "TypeError" /\ LeftOpen(FALSE) /\ Unchanged
       ELSE IF InsertRaises("market_movers")
       THEN err' = "OperationalError" /\ LeftOpen(FALSE) /\ NoTicks
            /\ Unchanged
       ELSE IF k > 0
       THEN /\ err' = "IntegrityError"
            /\ LeftOpen(TRUE)
            /\ NoTicks
            /\ market_movers' =
                 MoverAfterFailure(market_movers, mover_type, data, ticks, k)
            /\ UNCHANGED <<schema, clock, sector_snapshots, stock_news,
                           sectorCalls, moverCalls>>
       ELSE /\ InBounds(data, ticks)
            /\ err' = "none"
            /\ Closed
            /\ market_movers' =
                 InsertMoverRows(market_movers, mover_type, data, ticks)
            /\ clock' = TimeOf(ticks, Len(data))
            /\ moverCalls' = Append(moverCalls,
                 [type |-> mover_type,
                  ids  |-> {NextId(market_movers) + i - 1 : i \in 1..Len(data)}])
            /\ UNCHANGED <<schema, sector_snapshots, stock_news,
                           sectorCalls>>

\* The scope of the MAX(fetched_at) subquery: WHERE type = ?.
MoverScope(mover_type) == {q \in Rows(market_movers) : q.type = mover_type}

LatestMoverRows(mover_type) ==
  {r \in Rows(market_movers) :
     /\ r.type = mover_type
     /\ <<r.fetched_at>> =
          SqlMax({q.fetched_at : q \in MoverScope(mover_type)})}

MoverSelected(r) ==
  [symbol |-> r.symbol, name |-> r.name, price |-> r.price,
   change |-> r.change, changesPercentage |-> r.changesPercentage,
   volume |-> r.volume, fetched_at |-> r.fetched_at]

LatestMoverResults(mover_type) ==
  OrderByDesc({[id |-> r.id, k |-> r.changesPercentage,
                row |-> MoverSelected(r)] : r \in LatestMoverRows(mover_type)})

get_latest_market_movers ==
  \E mover_type \in MoverTypes :
    /\ call' = Call("get_latest_market_movers", mover_type, 0, FALSE, <<>>)
    /\ IF QueryRaises("market_movers")
       THEN /\ ret' = <<>>
            /\ err' = "DatabaseError"
            /\ LeftOpen(FALSE)
       ELSE /\ ret' \in LatestMoverResults(mover_type)
            /\ err' = "none"
            /\ Closed
    /\ UNCHANGED <<schema, clock, tables, sectorCalls, moverCalls,
                   otherVars>>

\* ------------------------------------------------------------------ news

NewsStored(item, rowid, t) ==
  [rowid |-> rowid, url |-> item.url, symbol |-> item.symbol,
   title |-> item.title, text |-> item.text, site |-> item.site,
   publishedDate |-> item.publishedDate, fetched_at |-> t]

\* url TEXT PRIMARY KEY of a rowid table: a unique index in which NULLs are
\* distinct from each other, and no NOT NULL constraint.
ViolatesPrimaryKey(tbl, item) ==
  item.url # NULL /\ \E r \in Rows(tbl) : r.url = item.url

\* title TEXT NOT NULL.
ViolatesNotNull(item) == item.title = NULL

\* INSERT OR REPLACE (the overwrite-on-conflict design): the stored row of
\* the same url is deleted and the new row takes its place.
InsertOrReplace(tbl, item, t) ==
  IF ViolatesNotNull(item)
  THEN tbl
  ELSE Append(SelectSeq(tbl, LAMBDA r : ~(item.url # NULL /\ r.url = item.url)),
              NewsStored(item, NextId(tbl), t))

\* INSERT OR IGNORE: a row that violates a constraint is skipped, the
\* statement succeeds.
InsertOrIgnore(tbl, item, t) ==
  IF ViolatesNotNull(item) \/ ViolatesPrimaryKey(tbl, item)
  THEN tbl
  ELSE Append(tbl, NewsStored(item, NextId(tbl), t))

\* The for loop of insert_news from its i-th item on.
RECURSIVE InsertNewsFrom(_, _, _, _)
InsertNewsFrom(tbl, data, ticks, i) ==
  IF i > Len(data) THEN tbl
  ELSE InsertNewsFrom(InsertOrIgnore(tbl, data[i], TimeOf(ticks, i)),
                      data, ticks, i + 1)

insert_news ==
  \E present \in BOOLEAN, data \in NewsBatches :
  \E ticks \in Ticks(data) :
    /\ ~present => data = <<>>
    /\ call' = Call("insert_news", "", 0, present, data)
    /\ ret' = <<>>
    /\ UNCHANGED otherVars
    /\ LET Unchanged ==
             UNCHANGED <<schema, clock, tables, sectorCalls, moverCalls>>
           NoTicks == \A i \in DOMAIN ticks : ~ticks[i]
       IN
       IF IsFalsy(present, data)
       THEN err' = "none" /\ Closed /\ Unchanged
       ELSE IF ~present
       THEN err' = "TypeError" /\ LeftOpen(FALSE) /\ Unchanged
       ELSE IF InsertRaises("stock_news")
       THEN err' = "OperationalError" /\ LeftOpen(FALSE) /\ NoTicks
            /\ Unchanged
       ELSE /\ InBounds(data, ticks)
            /\ err' = "none"
            /\ Closed
            /\ stock_news' = InsertNewsFrom(stock_news, data, ticks, 1)
            /\ clock' = TimeOf(ticks, Len(data))
            /\ UNCHANGED <<schema, sector_snapshots, market_movers,
                           sectorCalls, moverCalls>>

NewsSelected(r) ==
  [symbol |-> r.symbol, title |-> r.title, site |-> r.site,
   publishedDate |-> r.publishedDate, url |-> r.url]

NewsResults(limit) ==
  { Limit(s, limit) :
      s \in OrderByDesc({[id |-> r.rowid, k |-> r.publishedDate,
                          row |-> NewsSelected(r)] : r \in Rows(stock_news)}) }

\* The limits get_news is called with: -1 (no limit in SQLite) up to one
\* more than the tables can hold.
Limits == -1 .. (MaxRows + 1)

get_news ==
  \E limit \in Limits :
    /\ call' = Call("get_news", "", limit, FALSE, <<>>)
    /\ IF QueryRaises("stock_news")
       THEN /\ ret' = <<>>
            /\ err' = "DatabaseError"
            /\ LeftOpen(FALSE)
       ELSE /\ ret' \in NewsResults(limit)
            /\ err' = "none"
            /\ Closed
    /\ UNCHANGED <<schema, clock, tables, sectorCalls, moverCalls,
                   otherVars>>

\* ------------------------------------- a batch insert, statement by statement

BatchInserts == {"insert_sector_snapshot", "insert_market_movers"}

TableOf(name) ==
  IF name = "insert_sector_snapshot" THEN "sector_snapshots" ELSE "market_movers"

\* The rows of a table that a query on another connection reads.
Committed(name) ==
  IF name = "insert_sector_snapshot" THEN sector_snapshots ELSE market_movers

SetCommitted(name, tbl) ==
  IF name = "insert_sector_snapshot"
  THEN sector_snapshots' = tbl /\ UNCHANGED <<market_movers, stock_news>>
  ELSE market_movers' = tbl /\ UNCHANGED <<sector_snapshots, stock_news>>

\* insert_sector_snapshot or insert_market_movers is called with a
\* non-empty batch and opens its connection.
begin_insert ==
  /\ ~txn.active
  /\ \E name \in BatchInserts, mover_type \in MoverTypes,
        data \in (SectorBatches \cup SectorBatchesFailing
                     \cup MoverBatches \cup MoverBatchesFailing) :
       /\ ~IsFalsy(TRUE, data)
       /\ IF name = "insert_sector_snapshot"
          THEN data \in SectorBatches \cup SectorBatchesFailing
          ELSE data \in MoverBatches \cup MoverBatchesFailing
       /\ RowCount + Len(data) <= MaxTotal
       /\ txn' = [active |-> TRUE, name |-> name,
                  key |-> IF name = "insert_sector_snapshot" THEN ""
                          ELSE mover_type,
                  data |-> data, rows |-> <<>>]
  /\ UNCHANGED <<schema, clock, tables, sectorCalls, moverCalls, call, ret,
                 err, unclosed, writer, initPc, initErr, appVars>>

\* Every INSERT commits at once (a connection in autocommit mode): the row
\* is visible to the other connections as soon as it is inserted.
InsertAutocommitted(tbl, row) == Append(tbl, row)

\* What the other connections read after an INSERT of the running call: the
\* row belongs to the transaction sqlite3 opened before the first INSERT and
\* is not visible before conn.commit().
InsertInTransaction(tbl, row) == tbl

\* The next statement of the for loop: one INSERT, or the exception that
\* ends the call.
execute_insert ==
  /\ txn.active
  /\ Len(txn.rows) < Len(txn.data)
  /\ UNCHANGED <<schema, sectorCalls, moverCalls, ret, initPc, initErr,
                 appVars>>
  /\ LET i    == Len(txn.rows) + 1
         row  == txn.data[i]
         sect == txn.name = "insert_sector_snapshot"
         id   == Len(Committed(txn.name)) + i
         Raise(e, inTransaction) ==
           /\ txn' = NoTxn
           /\ call' = Call(txn.name, txn.key, 0, TRUE, txn.data)
           /\ err' = e
           /\ LeftOpen(inTransaction)
           /\ UNCHANGED <<clock, tables>>
     IN
     IF sect /\ SectorRowRaises(row)
     THEN Raise("KeyError", i > 1)
     ELSE IF i = 1 /\ InsertRaises(TableOf(txn.name))
     THEN Raise("OperationalError", FALSE)
     ELSE IF ~sect /\ MoverRowRaises(row)
     THEN Raise("IntegrityError", TRUE)
     ELSE \E tick \in BOOLEAN :
            LET now == clock + (IF tick THEN 1 ELSE 0)
                stored == IF sect THEN SectorStored(row, id, now)
                          ELSE MoverStored(txn.key, row, id, now)
            IN  /\ now <= MaxTime
                /\ clock' = now
                /\ txn' = [txn EXCEPT !.rows = Append(@, stored)]
                /\ SetCommitted(txn.name,
                                InsertInTransaction(Committed(txn.name), stored))
                /\ UNCHANGED <<call, err, unclosed, writer>>

\* conn.commit() and conn.close() after the last INSERT.
commit_insert ==
  /\ txn.active
  /\ Len(txn.rows) = Len(txn.data)
  /\ SetCommitted(txn.name, Committed(txn.name) \o txn.rows)
  /\ IF txn.name = "insert_sector_snapshot"
     THEN /\ sectorCalls' = Append(sectorCalls,
                {txn.rows[i].id : i \in DOMAIN txn.rows})
          /\ UNCHANGED moverCalls
     ELSE /\ moverCalls' = Append(moverCalls,
                [type |-> txn.key,
                 ids  |-> {txn.rows[i].id : i \in DOMAIN txn.rows}])
          /\ UNCHANGED sectorCalls
  /\ call' = Call(txn.name, txn.key, 0, TRUE, txn.data)
  /\ ret' = <<>>
  /\ err' = "none"
  /\ txn' = NoTxn
  /\ Closed
  /\ UNCHANGED <<schema, clock, initPc, initErr, appVars>>

\* -------------------------------------------------- init_db, statement by statement

\* The tables in the order init_db creates them.
InitTables == <<"sector_snapshots", "market_movers", "stock_news">>

\* A caller enters init_db and opens its connection.
init_begin(p) ==
  /\ initPc[p] = 0
  /\ initPc' = [initPc EXCEPT ![p] = 1]
  /\ initErr' = [initErr EXCEPT ![p] = "none"]
  /\ UNCHANGED <<schema, clock, tables, sectorCalls, moverCalls, call, ret,
                 err, unclosed, writer, txn, appVars>>

\* CREATE TABLE without IF NOT EXISTS: an error when the table exists.
CreateTableRaises(table) == table \in schema

\* CREATE TABLE IF NOT EXISTS: no error when the table exists.
CreateTableIfNotExistsRaises(table) == FALSE

\* The caller's next CREATE TABLE IF NOT EXISTS statement (a DDL statement
\* commits by itself).
init_create(p) ==
  /\ initPc[p] \in DOMAIN InitTables
  /\ UNCHANGED <<clock, sectorCalls, moverCalls, call, ret, err, txn,
                 appVars>>
  /\ LET table == InitTables[initPc[p]]
         Raise(e) ==
           /\ initPc' = [initPc EXCEPT ![p] = 0]
           /\ initErr' = [initErr EXCEPT ![p] = e]
           /\ LeftOpen(FALSE)
           /\ UNCHANGED <<schema, tables>>
     IN
     IF CreateTableIfNotExistsRaises(table)
     THEN Raise("OperationalError: table already exists")
     ELSE IF table \notin schema /\ Locked
     THEN Raise("OperationalError: database is locked")
     ELSE /\ initPc' = [initPc EXCEPT ![p] = @ + 1]
          /\ schema' = schema \cup {table}
          /\ sector_snapshots' =
               IF table = "sector_snapshots"
               THEN CreateTableIfNotExists(sector_snapshots)
               ELSE sector_snapshots
          /\ market_movers' =
               IF table = "market_movers"
               THEN CreateTableIfNotExists(market_movers)
               ELSE market_movers
          /\ stock_news' =
               IF table = "stock_news"
               THEN CreateTableIfNotExists(stock_news)
               ELSE stock_news
          /\ Closed
          /\ UNCHANGED initErr

\* conn.commit() and conn.close() after the last statement.
init_commit(p) ==
  /\ initPc[p] = Len(InitTables) + 1
  /\ initPc' = [initPc EXCEPT ![p] = 0]
  /\ call' = Call("init_db", "", 0, FALSE, <<>>)
  /\ ret' = <<>>
  /\ err' = "none"
  /\ Closed
  /\ UNCHANGED <<schema, clock, tables, sectorCalls, moverCalls, txn,
                 initErr, appVars>>

\* --------------------------------------------------------- get_gdelt_data

\* stop=stop_after_attempt(5) of get_gdelt_data.
stop_after_attempt == 5

\* Every RequestException re-raised to tenacity, whatever its status.
ReraisesAll(resp) == resp \in RequestErrors

\* The except clause re-raises only a response of status 429.
Reraises(resp) == resp = "HTTP 429"

\* get_gdelt_data(query, timespan) is called: st.cache_data returns the
\* cached value, or the retrying function starts.
get_gdelt_data ==
  /\ gdeltPc = "idle"
  /\ \E args \in GdeltArgs :
       /\ gdeltArgs' = args
       /\ attempt_number' = 0
       /\ response' = "none"
       /\ IF gdeltCache[args] # "miss"
          THEN gdeltPc' = "idle" /\ gdeltResult' = gdeltCache[args]
          ELSE gdeltPc' = "attempt" /\ gdeltResult' = "none"
  /\ UNCHANGED <<gdeltCache, dbVars, mapVars>>

\* One attempt: the body of get_gdelt_data, and tenacity's decision.
gdelt_attempt ==
  /\ gdeltPc = "attempt"
  /\ \E resp \in Responses :
       LET Return(v) ==
             /\ gdeltPc' = "idle"
             /\ gdeltResult' = v
             /\ gdeltCache' = [gdeltCache EXCEPT ![gdeltArgs] = v]
           Raise(e) ==
             /\ gdeltPc' = "idle"
             /\ gdeltResult' = e
             /\ UNCHANGED gdeltCache
       IN
       /\ response' = resp
       /\ attempt_number' = attempt_number + 1
       /\ IF resp \in RequestErrors /\ Reraises(resp)
          THEN IF attempt_number' >= stop_after_attempt
               THEN Raise("RequestException")
               ELSE UNCHANGED <<gdeltPc, gdeltResult, gdeltCache>>
          ELSE IF resp = "not an object"
          THEN Raise("TypeError")
          ELSE IF resp = "timeline"
          THEN Return("DataFrame")
          ELSE Return("empty DataFrame")
  /\ UNCHANGED <<gdeltArgs, dbVars, mapVars>>

\* ttl=3600: a cached value expires.
gdelt_cache_expire ==
  /\ \E args \in GdeltArgs :
       /\ gdeltCache[args] # "miss"
       /\ gdeltCache' = [gdeltCache EXCEPT ![args] = "miss"]
  /\ UNCHANGED <<gdeltPc, gdeltArgs, attempt_number, response, gdeltResult,
                 dbVars, mapVars>>

\* ------------------------------------------------- the US news map page

\* stop=stop_after_attempt(5) of get_gdelt_state_news_data.
state_stop_after_attempt == 5

\* `break` in the except clause: the loop ends at the failed state.
BreakLoop(i) == Len(US_STATES) + 1

\* `continue` in the except clause: the loop goes on with the next state.
ContinueLoop(i) == i + 1

\* The page's script runs with a search term: the loop starts.
map_run ==
  /\ mapPc \in {"idle", "done", "raised"}
  /\ mapPc' = "loop"
  /\ state_index' = 1
  /\ stateAttempts' = 0
  /\ all_states_data' = <<>>
  /\ processed' = <<>>
  /\ fetched' = [i \in DOMAIN US_STATES |-> "none"]
  /\ UNCHANGED <<stateCache, dbVars, gdeltVars>>

\* The for statement takes the next state and calls
\* get_gdelt_state_news_data, which st.cache_data may answer.
loop_next ==
  /\ mapPc = "loop"
  /\ IF state_index > Len(US_STATES)
     THEN /\ mapPc' = "done"
          /\ UNCHANGED <<state_index, stateAttempts, all_states_data,
                         processed, fetched>>
     ELSE /\ processed' = Append(processed, US_STATES[state_index])
          /\ IF US_STATES[state_index] \in stateCache
             THEN /\ all_states_data' =
                       Append(all_states_data, US_STATES[state_index])
                  /\ fetched' = [fetched EXCEPT ![state_index] = "returned"]
                  /\ state_index' = state_index + 1
                  /\ UNCHANGED <<mapPc, stateAttempts>>
             ELSE /\ mapPc' = "volume"
                  /\ stateAttempts' = 1
                  /\ UNCHANGED <<state_index, all_states_data, fetched>>
  /\ UNCHANGED <<stateCache, dbVars, gdeltVars>>

\* A request of the current attempt answered 429: the except clause
\* re-raises, tenacity starts the next attempt or, after the last one,
\* lets the RequestException reach the loop's except clause.
StateReraise ==
  IF stateAttempts >= state_stop_after_attempt
  THEN /\ fetched' = [fetched EXCEPT ![state_index] = "RequestException"]
       /\ state_index' = ContinueLoop(state_index)
       /\ mapPc' = "loop"
       /\ UNCHANGED <<stateAttempts, all_states_data, stateCache>>
  ELSE /\ stateAttempts' = stateAttempts + 1
       /\ mapPc' = "volume"
       /\ UNCHANGED <<state_index, all_states_data, fetched, stateCache>>

\* An exception that is no RequestException leaves the function, the loop
\* and the script.
StateRaise(e) ==
  /\ fetched' = [fetched EXCEPT ![state_index] = e]
  /\ mapPc' = "raised"
  /\ UNCHANGED <<state_index, stateAttempts, all_states_data, stateCache>>

\* The news volume request of the current attempt.
fetch_volume ==
  /\ mapPc = "volume"
  /\ \E resp \in StateResponses :
       IF resp = "HTTP 429" THEN StateReraise
       ELSE IF resp = "malformed" THEN StateRaise("TypeError")
       ELSE /\ mapPc' = "themes"
            /\ UNCHANGED <<state_index, stateAttempts, all_states_data,
                           fetched, stateCache>>
  /\ UNCHANGED <<processed, dbVars, gdeltVars>>

\* The themes request of the current attempt, and the return of the dict,
\* which the loop appends.
fetch_themes ==
  /\ mapPc = "themes"
  /\ \E resp \in StateResponses :
       IF resp = "HTTP 429" THEN StateReraise
       ELSE IF resp = "malformed" THEN StateRaise("KeyError")
       ELSE /\ stateCache' = stateCache \cup {US_STATES[state_index]}
            /\ fetched' = [fetched EXCEPT ![state_index] = "returned"]
            /\ all_states_data' =
                 Append(all_states_data, US_STATES[state_index])
            /\ state_index' = state_index + 1
            /\ mapPc' = "loop"
            /\ UNCHANGED stateAttempts
  /\ UNCHANGED <<processed, dbVars, gdeltVars>>

\* ttl=3600: a cached state's data expires.
state_cache_expire ==
  /\ \E s \in stateCache : stateCache' = stateCache \ {s}
  /\ UNCHANGED <<mapPc, state_index, stateAttempts, all_states_data,
                 processed, fetched, dbVars, gdeltVars>>

\* -------------------------------------------------------- specifications

\* One table only: the operations of one table read and write no other.
NextSector ==
  \/ init_db
  \/ insert_sector_snapshot
  \/ get_latest_sector_snapshot
  \/ get_sector_history
  \/ finalize_connection

SpecSector == Init /\ [][NextSector]_vars

NextMovers ==
  \/ init_db
  \/ insert_market_movers
  \/ get_latest_market_movers
  \/ finalize_connection

SpecMovers == Init /\ [][NextMovers]_vars

NextNews ==
  \/ init_db
  \/ insert_news
  \/ get_news
  \/ finalize_connection

SpecNews == Init /\ [][NextNews]_vars

\* The two snapshot tables, holding at most MaxTotal rows.
NextSnapshots ==
  \/ init_db
  \/ insert_sector_snapshot /\ RowCount' <= MaxTotal
  \/ get_latest_sector_snapshot
  \/ get_sector_history
  \/ insert_market_movers /\ RowCount' <= MaxTotal
  \/ get_latest_market_movers
  \/ finalize_connection

SpecSnapshots == Init /\ [][NextSnapshots]_vars

\* A batch insert that runs statement by statement while the snapshot
\* queries run on other connections.
NextTxn ==
  \/ init_db
  \/ begin_insert
  \/ execute_insert
  \/ commit_insert
  \/ get_latest_sector_snapshot
  \/ get_sector_history
  \/ get_latest_market_movers
  \/ finalize_connection

SpecTxn == Init /\ [][NextTxn]_vars

\* Callers of init_db that run statement by statement, while rows are
\* stored.
NextInit ==
  \/ \E p \in InitCallers : init_begin(p)
  \/ \E p \in InitCallers : init_create(p)
  \/ \E p \in InitCallers : init_commit(p)
  \/ insert_sector_snapshot /\ RowCount' <= MaxStore
  \/ finalize_connection

SpecInit == Init /\ [][NextInit]_vars

\* The calls of get_gdelt_data. An attempt ends: requests.get has a timeout
\* and tenacity waits at most 10 seconds.
NextGdelt ==
  \/ get_gdelt_data
  \/ gdelt_attempt
  \/ gdelt_cache_expire

SpecGdelt == Init /\ [][NextGdelt]_vars /\ WF_vars(gdelt_attempt)

\* The runs of the US news map page.
NextMap ==
  \/ map_run
  \/ loop_next
  \/ fetch_volume
  \/ fetch_themes
  \/ state_cache_expire

SpecMap == Init /\ [][NextMap]_vars

\* The whole store, holding at most MaxStore rows.
Next ==
  \/ init_db
  \/ insert_sector_snapshot /\ RowCount' <= MaxStore
  \/ get_latest_sector_snapshot
  \/ get_sector_history
  \/ insert_market_movers /\ RowCount' <= MaxStore
  \/ get_latest_market_movers
  \/ insert_news /\ RowCount' <= MaxStore
  \/ get_news
  \/ finalize_connection

Spec == Init /\ [][Next]_vars

\* ------------------------------------------------------------ properties

InsertNames == {"insert_sector_snapshot", "insert_market_movers", "insert_news"}

\* The sequence s holds exactly the selected columns of the rows R, each
\* row once.
SameRows(s, R, Selected(_)) ==
  \A v \in {s[i] : i \in DOMAIN s} \cup {Selected(r) : r \in R} :
    Cardinality({i \in DOMAIN s : s[i] = v})
      = Cardinality({r \in R : Selected(r) = v})

SectorById(ids) == {r \in Rows(sector_snapshots) : r.id \in ids}

MoverById(ids) == {r \in Rows(market_movers) : r.id \in ids}

SectorBatchTimes(i) == {r.fetched_at : r \in SectorById(sectorCalls[i])}

MoverBatchTimes(i) == {r.fetched_at : r \in MoverById(moverCalls[i].ids)}

\* Every non-empty sector batch was applied at one captured-at time, and no
\* two of them at the same time.
SectorBatchesAtDistinctTimes ==
  \A i \in DOMAIN sectorCalls :
    /\ Cardinality(SectorBatchTimes(i)) = 1
    /\ \A j \in DOMAIN sectorCalls :
         j # i => SectorBatchTimes(i) \cap SectorBatchTimes(j) = {}

\* C1: when the non-empty sector batches were applied at pairwise distinct
\* captured-at times, get_latest_sector_snapshot returns exactly the rows of
\* the last non-empty batch (all of them and no row of an earlier batch);
\* on an empty table it returns no row.
C1_LatestSectorIsLastBatch ==
  (call.name = "get_latest_sector_snapshot" /\ err = "none") =>
    /\ sector_snapshots = <<>> => ret = <<>>
    /\ (sectorCalls # <<>> /\ SectorBatchesAtDistinctTimes) =>
         SameRows(ret, SectorById(sectorCalls[Len(sectorCalls)]),
                  SectorSelected)

\* Two batches at distinct times, the last one of two rows, then the query.
C1_Witness ==
  /\ call.name = "get_latest_sector_snapshot"
  /\ err = "none"
  /\ Len(sectorCalls) >= 2
  /\ SectorBatchesAtDistinctTimes
  /\ Cardinality(sectorCalls[Len(sectorCalls)]) = 2
  /\ Len(ret) = 2

\* The last non-empty batch appended with the given type.
LastMoverCall(mover_type) ==
  LET idx == {i \in DOMAIN moverCalls : moverCalls[i].type = mover_type}
  IN  moverCalls[CHOOSE i \in idx : \A j \in idx : j <= i]

\* C2: for every category, get_latest_market_movers returns exactly the
\* rows of the most recent non-empty batch appended with that category
\* (so a later batch of another category never changes its result).
C2_LatestMoverIsLastBatchOfType ==
  ( /\ call.name = "get_latest_market_movers"
    /\ err = "none"
    /\ \E i \in DOMAIN moverCalls : moverCalls[i].type = call.key ) =>
    SameRows(ret, MoverById(LastMoverCall(call.key).ids), MoverSelected)

\* C3: insert_news of an item whose URL is already stored is a no-op for
\* that URL: across every step the stored row of a URL keeps all its fields
\* and its fetched_at and stays the only row of that URL, and a get_news
\* that is not cut short by its limit returns exactly one item of that URL,
\* with the stored title.
C3_DuplicateUrlKeepsOriginal ==
  [][ /\ \A r \in Rows(stock_news) :
           r.url # NULL =>
             /\ r \in Rows(stock_news')
             /\ Cardinality({q \in Rows(stock_news') : q.url = r.url}) = 1
      /\ ( /\ call'.name = "get_news"
           /\ err' = "none"
           /\ (call'.limit < 0 \/ call'.limit >= Len(stock_news)) ) =>
           \A r \in Rows(stock_news) :
             r.url # NULL =>
               /\ Cardinality({i \in DOMAIN ret' : ret'[i].url = r.url}) = 1
               /\ \E i \in DOMAIN ret' : ret'[i] = NewsSelected(r)
    ]_vars

\* insert_news has just been called with an item whose URL was stored in an
\* earlier second under another title.
C3_Witness ==
  /\ call.name = "insert_news"
  /\ err = "none"
  /\ \E i \in DOMAIN call.data : \E r \in Rows(stock_news) :
       /\ r.url # NULL
       /\ r.url = call.data[i].url
       /\ r.title # call.data[i].title
       /\ call.data[i].title # NULL
       /\ r.fetched_at < clock

\* C4: no two stored news rows have the same URL value, whatever items
\* insert_news was given (items without a url value included).
C4_UrlIsUnique ==
  \A i, j \in DOMAIN stock_news :
    i # j => stock_news[i].url # stock_news[j].url

\* C5: all rows inserted by one insert_sector_snapshot or
\* insert_market_movers call carry the same fetched_at value.
C5_BatchSharesCapturedAt ==
  /\ \A i \in DOMAIN sectorCalls : Cardinality(SectorBatchTimes(i)) = 1
  /\ \A i \in DOMAIN moverCalls : Cardinality(MoverBatchTimes(i)) = 1

\* C6: an insert called with an empty or absent list raises nothing and
\* leaves the three tables as they were.
C6_EmptyInsertIsNoOp ==
  [][ (call'.name \in InsertNames /\ call'.data = <<>>) =>
        (err' = "none" /\ UNCHANGED tables) ]_vars

\* An insert was called with an absent list while rows were stored.
C6_Witness ==
  /\ call.name \in InsertNames
  /\ ~call.present
  /\ call.data = <<>>
  /\ err = "none"
  /\ RowCount > 0

\* C7: init_db raises nothing and keeps every stored row, and once the
\* tables exist a further init_db changes nothing of the store, so the
\* state after N calls is the state after one.
C7_InitDbIdempotent ==
  [][ call'.name = "init_db" =>
        /\ err' = "none"
        /\ initialized'
        /\ UNCHANGED tables
        /\ initialized => UNCHANGED <<schema, clock, tables>> ]_vars

\* init_db was called again after rows had been stored.
C7_Witness ==
  /\ call.name = "init_db"
  /\ initialized
  /\ RowCount > 0

HistoryInInsertionOrder(sector) ==
  LET m == SelectSeq(sector_snapshots, LAMBDA r : r.sector = sector)
  IN  [i \in 1..Len(m) |-> HistorySelected(m[i])]

\* C9: get_sector_history(s) returns exactly the readings of sector s, in
\* ascending fetched_at order; when their times are pairwise distinct this
\* is their insertion order whatever their percent changes; with no
\* matching reading it returns no row and raises nothing.
C9_SectorHistoryAscending ==
  (call.name = "get_sector_history" /\ err = "none") =>
    LET M == {r \in Rows(sector_snapshots) : r.sector = call.key}
    IN  /\ SameRows(ret, M, HistorySelected)
        /\ \A i, j \in DOMAIN ret :
             i < j => ret[i].fetched_at <= ret[j].fetched_at
        /\ Cardinality({r.fetched_at : r \in M}) = Cardinality(M) =>
             ret = HistoryInInsertionOrder(call.key)
        /\ M = {} => ret = <<>>

\* Three Technology readings inserted at three distinct times with percent
\* changes 1, -2, 3 and returned in that order.
C9_Witness ==
  /\ call.name = "get_sector_history"
  /\ call.key = "Technology"
  /\ err = "none"
  /\ Len(ret) = 3
  /\ ret[1].changesPercentage = <<1>>
  /\ ret[2].changesPercentage = <<-2>>
  /\ ret[3].changesPercentage = <<3>>
  /\ ret[1].fetched_at < ret[2].fetched_at
  /\ ret[2].fetched_at < ret[3].fetched_at

Min(a, b) == IF a <= b THEN a ELSE b

\* C10: for a limit >= 0 get_news returns min(limit, stored count) items,
\* in descending publishedDate order, and they are items of greatest
\* publishedDate: no stored item left out is later than a returned one.
C10_RecentNewsLimit ==
  (call.name = "get_news" /\ err = "none" /\ call.limit >= 0) =>
    /\ Len(ret) = Min(call.limit, Len(stock_news))
    /\ \A i, j \in DOMAIN ret :
         i < j => SqlLeq(ret[j].publishedDate, ret[i].publishedDate)
    /\ \E T \in SUBSET Rows(stock_news) :
         /\ SameRows(ret, T, NewsSelected)
         /\ \A r \in T : \A q \in Rows(stock_news) \ T :
              SqlLeq(q.publishedDate, r.publishedDate)

\* A get_news whose limit cuts the result short of the stored items, one of
\* which has no publishedDate.
C10_Witness ==
  /\ call.name = "get_news"
  /\ err = "none"
  /\ call.limit >= 1
  /\ call.limit < Len(stock_news)
  /\ \E r \in Rows(stock_news) : r.publishedDate = NULL

\* C11: when a row of the batch passed to insert_sector_snapshot or
\* insert_market_movers cannot be inserted, the call raises and no row of
\* the batch, the ones before the failing row included, reaches the tables
\* that later queries read.
C11_FailedBatchNotApplied ==
  [][ (call'.data \in SectorBatchesFailing \cup MoverBatchesFailing) =>
        (err' # "none" /\ UNCHANGED tables) ]_vars

\* A sector batch failed at its second row while rows were stored, and its
\* connection still holds the transaction of its first row.
C11_Witness ==
  /\ call.name = "insert_sector_snapshot"
  /\ call.data \in SectorBatchesFailing
  /\ err = "KeyError"
  /\ writer
  /\ Len(sector_snapshots) > 0

\* C12: when insert_news returns normally, every item of a non-empty batch
\* is stored or has a URL that is stored already: no other item is dropped
\* without an error.
C12_NoSilentDrop ==
  (call.name = "insert_news" /\ err = "none") =>
    \A i \in DOMAIN call.data :
      \E r \in Rows(stock_news) : r.url = call.data[i].url

\* C13: after an operation has returned or raised, no connection it opened
\* is still open.
C13_HandlesReleased == ~AnyOpen

\* C14: no query on another connection reads a row of a batch insert that
\* is still running, and it reads every row of each batch that was
\* committed: all rows of a batch or none.
C14_BatchIsOneTransaction ==
  /\ txn.active =>
       \A i \in DOMAIN txn.rows : txn.rows[i] \notin Rows(Committed(txn.name))
  /\ \A i \in DOMAIN sectorCalls :
       sectorCalls[i] \subseteq {r.id : r \in Rows(sector_snapshots)}
  /\ \A i \in DOMAIN moverCalls :
       moverCalls[i].ids \subseteq {r.id : r \in Rows(market_movers)}
  /\ (call.name \in {"get_latest_sector_snapshot", "get_sector_history"}
        /\ err = "none") =>
       \A i \in DOMAIN ret :
         \E r \in Rows(sector_snapshots) :
           ret[i] \in {SectorSelected(r), HistorySelected(r)}
  /\ (call.name = "get_latest_market_movers" /\ err = "none") =>
       \A i \in DOMAIN ret :
         \E r \in Rows(market_movers) : ret[i] = MoverSelected(r)

\* A two-row sector batch has inserted its first row only, and the last
\* call to finish is a latest-snapshot query that returned no row.
C14_Witness ==
  /\ txn.active
  /\ txn.name = "insert_sector_snapshot"
  /\ Len(txn.rows) = 1
  /\ Len(txn.data) = 2
  /\ call.name = "get_latest_sector_snapshot"
  /\ err = "none"
  /\ ret = <<>>

\* C15: with init_db running in several callers at once, none of them
\* fails because a table already exists, a caller that returns leaves
\* exactly the three tables, and no statement of init_db touches a stored
\* row.
C15_ConcurrentInitDb ==
  [][ /\ \A p \in InitCallers :
           /\ initErr'[p] # "OperationalError: table already exists"
           /\ (initPc[p] = 4 /\ initPc'[p] = 0) => schema' = TableNames
      /\ initPc' # initPc => UNCHANGED tables ]_vars

\* Two callers are inside init_db at once, each with statements still to
\* run, while a row is stored.
C15_Witness ==
  /\ \E p, q \in InitCallers :
       /\ p # q
       /\ initPc[p] \in 2..3
       /\ initPc[q] \in 2..3
  /\ RowCount > 0

LatestNames == {"get_latest_sector_snapshot", "get_latest_market_movers"}

\* C16: get_latest_sector_snapshot and get_latest_market_movers return
\* their rows with the percent change never increasing, and a row without
\* a percent change after every row that has one.
C16_LatestByPercentDescending ==
  (call.name \in LatestNames /\ err = "none") =>
    \A i, j \in DOMAIN ret :
      i < j =>
        /\ ret[i].changesPercentage = NULL => ret[j].changesPercentage = NULL
        /\ (ret[i].changesPercentage # NULL /\ ret[j].changesPercentage # NULL)
             => ret[i].changesPercentage[1] >= ret[j].changesPercentage[1]

\* The latest sector snapshot holds a row without a percent change, which
\* is returned after the row that has one.
C16_Witness ==
  /\ call.name = "get_latest_sector_snapshot"
  /\ err = "none"
  /\ Len(ret) = 2
  /\ ret[1].changesPercentage # NULL
  /\ ret[2].changesPercentage = NULL

QueryNames ==
  {"get_latest_sector_snapshot", "get_sector_history",
   "get_latest_market_movers", "get_news"}

\* The table a query reads.
QueryTable(name) ==
  IF name \in {"get_latest_sector_snapshot", "get_sector_history"}
  THEN "sector_snapshots"
  ELSE IF name = "get_latest_market_movers" THEN "market_movers"
  ELSE "stock_news"

\* C17: a query whose table does not exist raises; a query that returns
\* ran on an existing table, and when it returns no row, no stored row
\* matches it.
C17_QueryFailureSurfaced ==
  call.name \in QueryNames =>
    /\ err = "none" => QueryTable(call.name) \in schema
    /\ (err = "none" /\ ret = <<>>) =>
         /\ call.name = "get_latest_sector_snapshot" => sector_snapshots = <<>>
         /\ call.name = "get_sector_history" =>
              \A r \in Rows(sector_snapshots) : r.sector # call.key
         /\ call.name = "get_latest_market_movers" =>
              \A r \in Rows(market_movers) : r.type # call.key
         /\ call.name = "get_news" => (stock_news = <<>> \/ call.limit = 0)

\* A query was called before init_db and raised.
C17_Witness ==
  /\ call.name \in QueryNames
  /\ ~initialized
  /\ err = "DatabaseError"

\* C18: a call of get_gdelt_data makes at most 5 attempts and ends; an
\* attempt is followed by another one only after a 429 response; any other
\* request error or a body that is not JSON ends the call with an empty
\* DataFrame; the fifth 429 in a row ends it with the RequestException.
C18_GdeltAtMostFiveAttempts ==
  /\ [](attempt_number <= 5)
  /\ [][ attempt_number' = attempt_number + 1 =>
           /\ gdeltPc' = "attempt" => response' = "HTTP 429"
           /\ response' \in {"HTTP 500", "ConnectionError", "invalid JSON"} =>
                (gdeltPc' = "idle" /\ gdeltResult' = "empty DataFrame")
           /\ (response' = "HTTP 429" /\ attempt_number' = 5) =>
                (gdeltPc' = "idle" /\ gdeltResult' = "RequestException")
       ]_vars
  /\ (gdeltPc = "attempt") ~> (gdeltPc = "idle")

\* The fifth attempt of a call was answered 429 and the call raised.
C18_Witness ==
  /\ gdeltPc = "idle"
  /\ attempt_number = 5
  /\ response = "HTTP 429"
  /\ gdeltResult = "RequestException"

\* The states whose fetch has returned in this run, in US_STATES order.
ReturnedStates ==
  LET idx == SelectSeq([i \in DOMAIN US_STATES |-> i],
                       LAMBDA i : fetched[i] = "returned")
  IN  [k \in DOMAIN idx |-> US_STATES[idx[k]]]

\* C19: the loop enters its body for the states of US_STATES in order, each
\* once; all_states_data holds one entry for each state whose fetch
\* returned, in that order, and none for another state; and a loop that no
\* exception other than a RequestException has left ends after the last
\* state, every state fetched or skipped.
C19_MapLoopSkipsFailedStates ==
  /\ Len(processed) <= Len(US_STATES)
  /\ processed = SubSeq(US_STATES, 1, Len(processed))
  /\ all_states_data = ReturnedStates
  /\ mapPc = "done" =>
       /\ processed = US_STATES
       /\ \A i \in DOMAIN US_STATES :
            fetched[i] \in {"returned", "RequestException"}

\* The loop has ended; a state was skipped after its last attempt and a
\* later state was fetched.
C19_Witness ==
  /\ mapPc = "done"
  /\ \E i, j \in DOMAIN US_STATES :
       /\ i < j
       /\ fetched[i] = "RequestException"
       /\ fetched[j] = "returned"

====
